---- MODULE Spec2Model ----
(***************************************************************************)
(* A model of ichk (src/ichk/check.py): the top-down reconciler            *)
(* ResourceCheck, the bottom-up reconciler VaultCheck, the object prober   *)
(* ObjectChecker and the hierarchy walk find_root / find_leaves.           *)
(*                                                                         *)
(* Strings that the code takes apart (paths, the children list, the        *)
(* hierarchy string) are sequences of one-character strings, so that       *)
(* str.replace, os.path.dirname, os.path.join, str.split and str.strip are *)
(* computed as Python computes them.  Names of storage resources are       *)
(* single characters.                                                      *)
(*                                                                         *)
(* The catalog and the filesystem are chosen in the initial state and do   *)
(* not change afterwards (the auditor is read-only).  One behaviour is two *)
(* invocations of the command over the same catalog and filesystem: first  *)
(* `-r <resource>` (ResourceCheck.run), then `-v <path>` (VaultCheck.run). *)
(***************************************************************************)
EXTENDS Integers, Sequences, FiniteSets, TLC

VARIABLES
    PY2,              \* check.py:18, the interpreter's major version is 2
    resc,             \* catalog: resource name -> resource row
    coll,             \* catalog: sequence of collection rows
    dobj,             \* catalog: sequence of data object rows
    fs,               \* filesystem: path -> node
    mode,             \* "resource" (ResourceCheck) or "vault" (VaultCheck)
    resource_name,    \* ResourceCheck.resource_name
    vault_path,       \* VaultCheck.vault_path
    root_collection,  \* Check.root_collection ("None" when not given)
    pc,               \* position of the running process
    abort,            \* why the process ended early ("" while it has not)
    root,             \* Check.root, a resource name
    vault,            \* Check._vault
    hiera,            \* Check.hiera
    storage_resource, \* VaultCheck.storage_resource, a resource name
    leaf,             \* the leaf find_leaves has just yielded
    to_visit,         \* find_leaves: the work queue
    collQ,            \* check_collections: collections still to iterate
    cur_coll,         \* check_collections: the collection being checked
    objQ,             \* check_collections: data objects still to iterate
    path,             \* VaultCheck.run: the path of the owner lookup loop
    walkQ,            \* os.walk: directories still to list
    dirname,          \* os.walk: the directory last listed
    subdirQ,          \* VaultCheck.run: subdirs still to iterate
    fileQ,            \* VaultCheck.run: filenames still to iterate
    heads,            \* the sink: for each head() call, the number of Results before it
    out,              \* the sink: the Results received, in order
    src,              \* history: for each Result, the leaf and catalog row it is about
    probes,           \* history: the data objects probed, and what each probe did
    visits,           \* history: how often find_leaves dequeued each resource
    yielded,          \* history: what find_leaves yielded, in order
    audited,          \* history: the leaves check_collections was started for
    tdOut,            \* history: the Results of the finished top-down run
    tdSrc,            \* history: src of the finished top-down run
    tdEnd,            \* history: how the top-down run ended ("" while it runs)
    logical_path,     \* path translation: the logical path of a collection
    phy_dir,          \* path translation: check_collections' coll_path for it
    back_path         \* path translation: get_collection's coll_name for phy_dir

vars == << PY2, resc, coll, dobj, fs, mode, resource_name, vault_path,
           root_collection, pc, abort, root, vault, hiera, storage_resource,
           leaf, to_visit, collQ, cur_coll, objQ, path, walkQ, dirname,
           subdirQ, fileQ, heads, out, src, probes, visits, yielded,
           audited, tdOut, tdSrc, tdEnd, logical_path, phy_dir, back_path >>

world == << PY2, resc, coll, dobj, fs, root_collection >>

\* The variables of the path translation alone.
translation == << logical_path, phy_dir, back_path >>

----------------------------------------------------------------------------
(* Bounds of the model.                                                    *)

\* File sizes on disk range over 0 .. MaxSize (the catalog size is MaxSize).
MaxSize == 1

\* File contents range over 1 .. NumContent (the catalog digests are of content 1).
NumContent == 2

\* The hierarchies of SpecHier are the trees over the first NumResc names.
NumResc == 3

\* The logical paths translated have at most MaxSegs segments below the zone.
MaxSegs == 2

----------------------------------------------------------------------------
(* Python values.                                                          *)

None == "None"

PyNone == [ty |-> "NoneType"]

\* str(n) of an integer n
PyStrOfInt(n) == [ty |-> "str", dec |-> n]

\* A text or byte string holding a digest: enc is how the digest bytes are
\* written ("raw" or "b64"), alg and c say which digest of which content.
PyDigest(ty, enc, alg, c) == [ty |-> ty, enc |-> enc, alg |-> alg, c |-> c]

\* Python's a != b on two digest strings.  In Python 3 a bytes object never
\* equals a str; in Python 2 both are str and compare by content.
PyNe(a, b) == a # b

\* A dict.update that forgets the keys already present: the observed values
\* of a Result would then be those of the last step only.
DictReplace(d, e) == e

\* dict.update
DictUpdate(d, e) ==
    [k \in (DOMAIN d) \cup (DOMAIN e) |-> IF k \in DOMAIN e THEN e[k] ELSE d[k]]

EmptyDict == [k \in {} |-> PyNone]

----------------------------------------------------------------------------
(* Python string operations on sequences of characters.                    *)

StartsWithAt(s, i, old) ==
    /\ i + Len(old) - 1 <= Len(s)
    /\ SubSeq(s, i, i + Len(old) - 1) = old

StartsWith(s, old) == StartsWithAt(s, 1, old)

\* s.replace(old, new, count) for a non-empty old: the first count
\* non-overlapping occurrences, left to right; count = -1 replaces all.
RECURSIVE ReplaceFrom(_, _, _, _, _)
ReplaceFrom(s, i, old, new, count) ==
    IF i > Len(s) THEN << >>
    ELSE IF count # 0 /\ StartsWithAt(s, i, old)
         THEN new \o ReplaceFrom(s, i + Len(old), old, new, count - 1)
         ELSE << s[i] >> \o ReplaceFrom(s, i + 1, old, new, count)

Replace(s, old, new) == ReplaceFrom(s, 1, old, new, -1)

ReplaceCount(s, old, new, count) == ReplaceFrom(s, 1, old, new, count)

\* sep.join(parts)
RECURSIVE Join(_, _)
Join(parts, sep) ==
    IF parts = << >> THEN << >>
    ELSE IF Len(parts) = 1 THEN parts[1]
    ELSE parts[1] \o sep \o Join(Tail(parts), sep)

\* s.split(sep) for a one-character sep
RECURSIVE SplitFrom(_, _, _, _)
SplitFrom(s, i, sep, acc) ==
    IF i > Len(s) THEN << acc >>
    ELSE IF s[i] = sep THEN << acc >> \o SplitFrom(s, i + 1, sep, << >>)
    ELSE SplitFrom(s, i + 1, sep, Append(acc, s[i]))

Split(s, sep) == SplitFrom(s, 1, sep, << >>)

\* s.strip(chars)
RECURSIVE LStrip(_, _)
LStrip(s, chars) ==
    IF s # << >> /\ Head(s) \in chars THEN LStrip(Tail(s), chars) ELSE s

RECURSIVE RStrip(_, _)
RStrip(s, chars) ==
    IF s # << >> /\ s[Len(s)] \in chars
    THEN RStrip(SubSeq(s, 1, Len(s) - 1), chars) ELSE s

Strip(s, chars) == RStrip(LStrip(s, chars), chars)

\* s.rfind("/") + 1
RECURSIVE LastSlash(_, _)
LastSlash(s, i) ==
    IF i = 0 THEN 0 ELSE IF s[i] = "/" THEN i ELSE LastSlash(s, i - 1)

\* os.path.dirname (posixpath.split(p)[0])
Dirname(p) ==
    LET head == SubSeq(p, 1, LastSlash(p, Len(p)))
    IN  IF head # << >> /\ \E i \in 1..Len(head) : head[i] # "/"
        THEN RStrip(head, {"/"}) ELSE head

\* os.path.basename
Basename(p) == SubSeq(p, LastSlash(p, Len(p)) + 1, Len(p))

\* os.path.join(a, b)
PathJoin(a, b) ==
    IF StartsWith(b, << "/" >>) THEN b
    ELSE IF a = << >> \/ a[Len(a)] = "/" THEN a \o b
    ELSE a \o << "/" >> \o b

RootDir == << "/" >>

----------------------------------------------------------------------------
(* The catalog.                                                            *)

\* The audit host (Check.fqdn) and another host.
Fqdn == "h"

OtherHost == "o"

ZoneName == "z"

RescNames == << "p", "q", "s", "t", "u" >>

AllNames == { RescNames[i] : i \in 1..Len(RescNames) }

\* Resource.id of the resource of each name
IdOf == [ n \in AllNames |->
            CASE n = "p" -> "id_p" [] n = "q" -> "id_q" [] n = "s" -> "id_s"
              [] n = "t" -> "id_t" [] OTHER -> "id_u" ]

\* Resource.vault_path of a storage resource of each name: "/v<name>"
VaultPathOf(n) == << "/", "v", n >>

\* Resource.children of a resource with children cs (a sequence of names):
\* "c1{};c2{}", and the empty string when there are none.
ChildrenString(cs) ==
    Join([ i \in 1..Len(cs) |-> << cs[i], "{", "}" >> ], << ";" >>)

\* The names of `names` in the order of RescNames.
RECURSIVE InOrder(_, _)
InOrder(names, i) ==
    IF i > Len(RescNames) THEN << >>
    ELSE (IF RescNames[i] \in names THEN << RescNames[i] >> ELSE << >>)
         \o InOrder(names, i + 1)

\* The resource table of the tree with parent map par (None at the root)
\* in which the childless resources are hosted as loc says.
MkResc(par, loc) ==
    [ n \in DOMAIN par |->
        LET kids == { c \in DOMAIN par : par[c] = n }
        IN  [ id         |-> IdOf[n],
              name       |-> << n >>,
              parent     |-> IF par[n] = None THEN None ELSE IdOf[par[n]],
              children   |-> ChildrenString(InOrder(kids, 1)),
              location   |-> IF kids = {} THEN loc[n] ELSE "EMPTY_RESC_HOST",
              vault_path |-> IF kids = {} THEN VaultPathOf(n)
                             ELSE << "EMPTY_RESC_PATH" >>,
              zone_name  |-> ZoneName ] ]

\* par is a tree: one root, and every resource reaches it.
RECURSIVE ReachesRoot(_, _, _)
ReachesRoot(par, n, k) ==
    IF par[n] = None THEN TRUE
    ELSE IF k = 0 THEN FALSE ELSE ReachesRoot(par, par[n], k - 1)

IsTree(par) ==
    /\ Cardinality({ n \in DOMAIN par : par[n] = None }) = 1
    /\ \A n \in DOMAIN par : ReachesRoot(par, n, Cardinality(DOMAIN par))

CollA == << "/", ZoneName, "/", "a" >>

CollB == << "/", ZoneName, "/", "b" >>

\* The collection rows.  rescs is the set of resources the catalog joins
\* the collection with (query(Collection...).filter(Resource.id == ...)).
Collections ==
    << [ id |-> "c1", name |-> CollA, rescs |-> { IdOf[n] : n \in AllNames } ],
       [ id |-> "c2", name |-> CollB, rescs |-> { "id_p", "id_q" } ] >>

HierPQ == << "p", ";", "q" >>

HierPS == << "p", ";", "s" >>

NoChecksum == [ kind |-> "None" ]

\* A stored checksum: kind "sha2" is the string "sha2:" followed by the
\* base64 text of the sha256 digest of content c; kind "md5" is the md5
\* digest of content c without prefix.
Checksum(kind, c) == [ kind |-> kind, c |-> c ]

Checksums == { NoChecksum, Checksum("sha2", 1), Checksum("md5", 1) }

\* The data object rows: f (with the checksum ck) and g on the leaf q, and
\* a replica of f on the leaf s.
DataObjects(ck) ==
    << [ id |-> "d1", coll_id |-> "c1", name |-> << "f" >>,
         path |-> VaultPathOf("q") \o << "/", "a", "/", "f" >>,
         size |-> MaxSize, checksum |-> ck, resc_hier |-> HierPQ ],
       [ id |-> "d2", coll_id |-> "c1", name |-> << "g" >>,
         path |-> VaultPathOf("q") \o << "/", "a", "/", "g" >>,
         size |-> MaxSize, checksum |-> Checksum("sha2", 1), resc_hier |-> HierPQ ],
       [ id |-> "d3", coll_id |-> "c1", name |-> << "f" >>,
         path |-> VaultPathOf("s") \o << "/", "a", "/", "f" >>,
         size |-> MaxSize, checksum |-> NoChecksum, resc_hier |-> HierPS ] >>

----------------------------------------------------------------------------
(* The filesystem.                                                         *)

\* A node: kind "dir", "file" or "symlink" (a symbolic link whose target is
\* missing); present: the parent directory has an entry of this name; x and
\* r: search and read permission for the auditor; eio: stat fails with an
\* errno other than ENOENT and EACCES; size and c: a file's size and content;
\* errno: what os.stat gives for the node's path ("ok" when it succeeds),
\* which follows from the node and the directories above it (StatIn).
Node(kind, present, x, r, eio, size, c) ==
    [ kind |-> kind, present |-> present, x |-> x, r |-> r, eio |-> eio,
      size |-> size, c |-> c, errno |-> "" ]

GoodDir == Node("dir", TRUE, TRUE, TRUE, FALSE, 0, 1)

GoodFile == Node("file", TRUE, TRUE, TRUE, FALSE, MaxSize, 1)

Absent == Node("file", FALSE, TRUE, TRUE, FALSE, 0, 1)

DirStates ==
    { GoodDir,
      [ GoodDir EXCEPT !.present = FALSE ],
      [ GoodDir EXCEPT !.x = FALSE ],
      [ GoodDir EXCEPT !.r = FALSE ],
      [ GoodDir EXCEPT !.eio = TRUE ] }

FileStates ==
    { Absent,
      Node("symlink", TRUE, TRUE, TRUE, FALSE, 0, 1),
      [ GoodFile EXCEPT !.eio = TRUE ] }
    \cup { Node("file", TRUE, TRUE, r, FALSE, size, c) :
             r \in BOOLEAN, size \in 0..MaxSize, c \in 1..NumContent }

\* The paths below the vault of the resource named n.
DirA(n) == VaultPathOf(n) \o << "/", "a" >>

DirB(n) == VaultPathOf(n) \o << "/", "b" >>

FileIn(d, name) == d \o << "/", name >>

FsPaths ==
    { VaultPathOf(n) : n \in AllNames }
    \cup { DirA(n) : n \in AllNames }
    \cup { FileIn(DirA(n), "f") : n \in AllNames }
    \cup { FileIn(DirA("q"), "g"), DirB("q"), FileIn(DirB("q"), "h") }

\* The nodes of the filesystem in which the vaults of `missing` do not
\* exist, /vq/a is in state da and /vq/a/f in state f; everything else is
\* there and sound.
Nodes(missing, da, f) ==
    [ p \in FsPaths |->
        IF \E n \in missing : p = VaultPathOf(n)
        THEN [ GoodDir EXCEPT !.present = FALSE ]
        ELSE IF p = DirA("q") THEN da
        ELSE IF p = FileIn(DirA("q"), "f") THEN f
        ELSE IF Basename(p) \in { << "f" >>, << "g" >>, << "h" >> } THEN GoodFile
        ELSE GoodDir ]

\* The errno of os.stat(p) over the nodes nd: the first failure on the way
\* down from the root directory.
RECURSIVE StatIn(_, _)
StatIn(nd, p) ==
    IF p = RootDir THEN "ok"
    ELSE IF StatIn(nd, Dirname(p)) # "ok" THEN StatIn(nd, Dirname(p))
    ELSE IF Dirname(p) # RootDir /\ nd[Dirname(p)].kind # "dir" THEN "ENOTDIR"
    ELSE IF Dirname(p) # RootDir /\ ~nd[Dirname(p)].x THEN "EACCES"
    ELSE IF ~nd[p].present \/ nd[p].kind = "symlink" THEN "ENOENT"
    ELSE IF nd[p].eio THEN "EIO"
    ELSE "ok"

MkFs(missing, da, f) ==
    [ p \in FsPaths |->
        [ Nodes(missing, da, f)[p] EXCEPT
            !.errno = StatIn(Nodes(missing, da, f), p) ] ]

\* The errno of os.stat(p), "ok" when it succeeds.  A path the filesystem
\* has no node for does not exist; a relative path names nothing, the
\* auditor's working directory holds none of the model's files.
Stat(p) ==
    IF p = RootDir THEN "ok"
    ELSE IF p \in DOMAIN fs THEN fs[p].errno
    ELSE IF Dirname(p) \in DOMAIN fs /\ fs[Dirname(p)].errno # "ok"
         THEN fs[Dirname(p)].errno
    ELSE IF Dirname(p) \in DOMAIN fs /\ ~fs[Dirname(p)].x THEN "EACCES"
    ELSE "ENOENT"

\* os.path.exists
PathExists(p) == Stat(p) = "ok"

\* The errno of open(p, 'rb'), "ok" when it succeeds.
OpenErrno(p) ==
    IF Stat(p) # "ok" THEN Stat(p)
    ELSE IF ~fs[p].r THEN "EACCES" ELSE "ok"

----------------------------------------------------------------------------
(* Results and the object prober.                                          *)

Result(obj_type, obj_path, phy_path, status, observed_values) ==
    [ obj_type |-> obj_type, obj_path |-> obj_path, phy_path |-> phy_path,
      status |-> status, observed_values |-> observed_values ]

\* What a call gives back: a value, or an exception that nothing catches.
Return(v) == [ raised |-> "", value |-> v ]

Raise(exc) == [ raised |-> exc, value |-> PyNone ]

\* A bare Status, and a (Status, info) pair.
Bare(status) == [ tuple |-> FALSE, status |-> status, info |-> EmptyDict ]

Pair(status, info) == [ tuple |-> TRUE, status |-> status, info |-> info ]

\* on_disk(path)
on_disk(p) ==
    LET e == Stat(p)
    IN  IF e = "ok" THEN Return("OK")
        ELSE IF e = "ENOENT" THEN Return("NOT_EXISTING")
        ELSE IF e = "EACCES" THEN Return("ACCESS_DENIED")
        ELSE Raise("OSError")

\* ObjectChecker.statinfo: the stat result, or a Status when stat fails
\* with ENOENT or EACCES.
statinfo(phy_path) ==
    LET e == Stat(phy_path)
    IN  IF e = "ok" THEN Return([ is_status |-> FALSE, status |-> "",
                                   st_size |-> fs[phy_path].size ])
        ELSE IF e = "ENOENT"
             THEN Return([ is_status |-> TRUE, status |-> "NOT_EXISTING", st_size |-> 0 ])
        ELSE IF e = "EACCES"
             THEN Return([ is_status |-> TRUE, status |-> "ACCESS_DENIED", st_size |-> 0 ])
        ELSE Raise("OSError")

\* ObjectChecker.exists_on_disk
exists_on_disk(phy_path) ==
    LET si == statinfo(phy_path)
    IN  IF si.raised # "" THEN si
        ELSE IF si.value.is_status THEN Return(si.value.status)
        ELSE Return("OK")

\* ObjectChecker.compare_filesize: a bare Status when stat failed, else a
\* (Status, info) pair.
compare_filesize(data_object, phy_path) ==
    LET si == statinfo(phy_path)
    IN  IF si.raised # "" THEN si
        ELSE IF si.value.is_status THEN Return(Bare(si.value.status))
        ELSE LET info == [ expected_filesize |-> PyStrOfInt(data_object.size),
                           observed_filesize |-> PyStrOfInt(si.value.st_size) ]
             IN  IF data_object.size # si.value.st_size
                 THEN Return(Pair("FILE_SIZE_MISMATCH", info))
                 ELSE Return(Pair("OK", info))

\* The type of hsh.digest() and of base64.b64encode(...): bytes, which is
\* str in Python 2.
BytesType == IF PY2 THEN "str" ELSE "bytes"

\* ObjectChecker.compare_checksums.  opened says whether the file was
\* opened and read.
compare_checksums(data_object, phy_path) ==
    LET irods_checksum == data_object.checksum
        none_info == [ expected_checksum |-> PyNone, observed_checksum |-> PyNone ]
        e == OpenErrno(phy_path)
    IN  IF irods_checksum = NoChecksum
        THEN Return(Pair("NO_CHECKSUM", none_info))
        ELSE IF e # "ok"
        THEN \* open() raises IOError in Python 2, which `except OSError`
             \* does not catch; in Python 3 IOError is OSError.
             IF PY2 THEN Raise("IOError")
             ELSE IF e = "EACCES" THEN Return(Pair("ACCESS_DENIED", none_info))
             ELSE Raise("OSError")
        ELSE LET sha2 == irods_checksum.kind = "sha2"
                 expected == IF sha2
                             THEN PyDigest("str", "b64", "sha256", irods_checksum.c)
                             ELSE PyDigest("str", "raw", "md5", irods_checksum.c)
                 phy_checksum ==
                     IF sha2
                     THEN PyDigest(BytesType, "b64", "sha256", fs[phy_path].c)
                     ELSE PyDigest(BytesType, "raw", "md5", fs[phy_path].c)
                 info == [ expected_checksum |-> expected,
                           observed_checksum |-> phy_checksum ]
             IN  IF PyNe(phy_checksum, expected)
                 THEN Return(Pair("CHECKSUM_MISMATCH", info))
                 ELSE Return(Pair("OK", info))

\* Whether compare_checksums opens and reads the file.
ComputesDigest(data_object, phy_path) ==
    data_object.checksum # NoChecksum /\ OpenErrno(phy_path) = "ok"

\* What probing one data object gives: an exception, or the status and the
\* observed values of its Result; digested: the digest was computed.
Probed(raised, status, observed_values, digested) ==
    [ raised |-> raised, status |-> status,
      observed_values |-> observed_values, digested |-> digested ]

\* ResourceCheck.check_collections, lines 354-363
ProbeTopDown(data_object, phy_path) ==
    LET ex == exists_on_disk(phy_path)
        fz == compare_filesize(data_object, phy_path)
        ck == compare_checksums(data_object, phy_path)
    IN  IF ex.raised # "" THEN Probed(ex.raised, "", EmptyDict, FALSE)
        ELSE IF ex.value # "OK" THEN Probed("", ex.value, EmptyDict, FALSE)
        ELSE IF fz.value.status # "OK"
             THEN Probed("", fz.value.status, fz.value.info, FALSE)
        ELSE IF ck.raised # "" THEN Probed(ck.raised, "", EmptyDict, FALSE)
        ELSE Probed("", ck.value.status,
                    DictUpdate(fz.value.info, ck.value.info),
                    ComputesDigest(data_object, phy_path))

\* VaultCheck.run, lines 423-428: compare_filesize is called without
\* exists_on_disk, and its result is unpacked as a pair.
ProbeBottomUp(data_object, phy_path) ==
    LET fz == compare_filesize(data_object, phy_path)
        ck == compare_checksums(data_object, phy_path)
    IN  IF fz.raised # "" THEN Probed(fz.raised, "", EmptyDict, FALSE)
        ELSE IF ~fz.value.tuple THEN Probed("TypeError", "", EmptyDict, FALSE)
        ELSE IF fz.value.status # "OK"
             THEN Probed("", fz.value.status, fz.value.info, FALSE)
        ELSE IF ck.raised # "" THEN Probed(ck.raised, "", EmptyDict, FALSE)
        ELSE Probed("", ck.value.status,
                    DictUpdate(fz.value.info, ck.value.info),
                    ComputesDigest(data_object, phy_path))

----------------------------------------------------------------------------
(* Catalog queries and the hierarchy walk.                                 *)

\* An optional argument: << >> is None, << v >> is v.
NoneOpt == << >>

Some(v) == << v >>

\* Check.get_resource: the resource of that name, None when there is none.
get_resource(name) ==
    IF \E n \in DOMAIN resc : resc[n].name = name
    THEN CHOOSE n \in DOMAIN resc : resc[n].name = name
    ELSE None

\* Check.get_resource_from_phy_path
get_resource_from_phy_path(phy_path) ==
    LET hit == { n \in DOMAIN resc :
                   resc[n].vault_path = phy_path /\ resc[n].location = Fqdn }
    IN  IF hit = {} THEN None ELSE CHOOSE n \in hit : TRUE

\* Check.find_root, climb: the root above resource, and the names of the
\* ancestors met on the way up, nearest first.
RECURSIVE climb(_, _)
climb(resource, ancestors) ==
    LET parent == resc[resource].parent
    IN  IF parent = None THEN << resource, ancestors >>
        ELSE LET ancestor == CHOOSE n \in DOMAIN resc : resc[n].id = parent
             IN  climb(get_resource(resc[ancestor].name),
                       Append(ancestors, resc[ancestor].name))

\* A find_root without ancestors.reverse(): the chain would be kept in the
\* order of the climb, nearest ancestor first.
AsClimbed(s) == s

Reverse(s) == [ i \in 1..Len(s) |-> s[Len(s) + 1 - i] ]

\* Check.find_root: << root, ancestors >>, the ancestors root first.
find_root(resource) ==
    LET c == climb(resource, << >>) IN << c[1], Reverse(c[2]) >>

\* find_leaves, line 250: the child names of a children string
ChildNames(children) ==
    LET parts == Split(children, ";")
    IN  [ i \in 1..Len(parts) |-> Strip(parts[i], { "{", "}" }) ]

\* ResourceCheck.collections_in_root
collections_in_root ==
    LET OnRoot(c) == resc[root].id \in c.rescs
        Named(c)  == OnRoot(c) /\ c.name = root_collection[1]
        Below(c)  == OnRoot(c) /\ StartsWith(c.name, root_collection[1] \o << "/" >>)
    IN  IF root_collection = NoneOpt THEN SelectSeq(coll, OnRoot)
        ELSE SelectSeq(coll, Named) \o SelectSeq(coll, Below)

\* A data_objects_in_collection without the filter on the placement path:
\* the data objects of a collection would be listed under every leaf.
data_objects_of_any_hier(coll_id) ==
    LET Match(d) == d.coll_id = coll_id
    IN  SelectSeq(dobj, Match)

\* ResourceCheck.data_objects_in_collection
data_objects_in_collection(coll_id) ==
    LET Match(d) == d.coll_id = coll_id /\ d.resc_hier = hiera
    IN  SelectSeq(dobj, Match)

\* os.path.realpath on the model's paths, which are absolute, normalised
\* and free of symbolic links to directories.
Realpath(p) == p

----------------------------------------------------------------------------
(* The sink and the end of a process.                                      *)

\* self.formatter(result): the sink receives the Result; who is the row (a
\* catalog id, or None) the Result is about.
Emit(result, who) ==
    /\ out' = Append(out, result)
    /\ src' = Append(src, [ leaf |-> IF leaf = << >> THEN None ELSE leaf[1],
                            row  |-> who ])

NoEmit == UNCHANGED << out, src >>

\* History of ObjectChecker(data_object, phy_path): the row probed, whether
\* its digest was computed, and the status of the Result the probe led to
\* ("" when an exception ended the run instead).
Probe(data_object, phy_path, probe) ==
    probes' = Append(probes, [ row      |-> data_object.id,
                               path     |-> phy_path,
                               leaf     |-> leaf[1],
                               digested |-> probe.raised = "" /\ probe.digested,
                               status   |-> probe.status ])

\* An uncaught exception or sys.exit ends the process.
Aborted(why) ==
    /\ pc' = "aborted"
    /\ abort' = why

Running(next) ==
    /\ pc' = next
    /\ UNCHANGED abort

bottomUpVars == << vault_path, storage_resource, path, walkQ, dirname,
                   subdirQ, fileQ, tdOut, tdSrc, tdEnd >>

----------------------------------------------------------------------------
(* The top-down run, ResourceCheck.run.                                    *)

\* A start of find_leaves at the root of the hierarchy instead of the named
\* resource: the run would then audit every leaf under the root.
find_leaves_from_root(resource) ==
    << << find_root(resource)[1], find_root(resource)[2] >> >>

\* Lines 286-288 and 241-243: find_leaves is started at the named resource
\* with the ancestors find_root found above it.
find_leaves_start(resource) == << << resource, find_root(resource)[2] >> >>

\* Lines 279-288, up to the first next() on find_leaves: head(), the lookup
\* of the named resource, find_root, and the start of the generator.
TDStart ==
    /\ mode = "resource" /\ pc = "start"
    /\ heads' = Append(heads, Len(out))
    /\ LET resource == get_resource(resource_name)
       IN  IF resource = None
           THEN \* find_root(None): None[Resource.parent]
                /\ Aborted("TypeError")
                /\ UNCHANGED << root, to_visit >>
           ELSE /\ Running("leaves")
                /\ root' = resource
                /\ to_visit' = find_leaves_start(resource)
    /\ UNCHANGED << world, translation, mode, resource_name, vault, hiera, leaf, collQ,
                    cur_coll, objQ, out, src, probes, visits, yielded,
                    audited, bottomUpVars >>

\* A find_leaves without the host test of line 254: every childless node
\* would be yielded.
IsLocalAlways(node) == TRUE

\* find_leaves, line 254: a childless node is yielded when it is hosted on
\* the audit host.
IsLocal(node) == resc[node].location = Fqdn

\* find_leaves, lines 245-265: one iteration of the while loop, run when the
\* for loop of line 288 asks for the next leaf.
FindLeavesStep ==
    /\ mode = "resource" /\ pc = "leaves" /\ to_visit # << >>
    /\ LET node      == to_visit[1][1]
           ancestors == to_visit[1][2]
       IN  IF node = None
           THEN \* get_resource found no such child: None[Resource.children]
                /\ Aborted("TypeError")
                /\ UNCHANGED << to_visit, leaf, visits, yielded >>
           ELSE /\ visits' = [ visits EXCEPT ![node] = @ + 1 ]
                /\ IF resc[node].children # << >>
                   THEN LET names == ChildNames(resc[node].children)
                        IN  /\ to_visit' = Tail(to_visit) \o
                                 [ i \in 1..Len(names) |->
                                     << get_resource(names[i]),
                                        Append(ancestors, resc[node].name) >> ]
                            /\ Running("leaves")
                            /\ UNCHANGED << leaf, yielded >>
                   ELSE IF IsLocal(node)
                   THEN /\ to_visit' = Tail(to_visit)
                        /\ leaf' = << node, Append(ancestors, resc[node].name) >>
                        /\ yielded' = Append(yielded, leaf')
                        /\ Running("leaf")
                   ELSE /\ to_visit' = Tail(to_visit)
                        /\ Running("leaves")
                        /\ UNCHANGED << leaf, yielded >>
    /\ UNCHANGED << world, translation, mode, resource_name, root, vault, hiera, collQ,
                    cur_coll, objQ, heads, out, src, probes, audited,
                    bottomUpVars >>

\* find_leaves, line 245, with the queue empty: the generator is exhausted,
\* the for loop of line 288 ends and run returns.
FindLeavesEnd ==
    /\ mode = "resource" /\ pc = "leaves" /\ to_visit = << >>
    /\ Running("done")
    /\ UNCHANGED << world, translation, mode, resource_name, root, vault, hiera, leaf,
                    to_visit, collQ, cur_coll, objQ, heads, out, src, probes,
                    visits, yielded, audited, bottomUpVars >>

\* A vault setter without the existence test: a leaf whose physical root
\* does not exist would be audited like any other.
vault_setter_unchecked(vault_path_) == Some(Realpath(vault_path_))

\* Check.vault (setter), lines 207-213: the new value of _vault, or no
\* value when the path does not exist and the setter calls sys.exit.
vault_setter(vault_path_) ==
    IF PathExists(vault_path_) THEN Some(Realpath(vault_path_)) ELSE NoneOpt

\* Lines 289-291 and 323-326: the body of the for loop for the leaf just
\* yielded, up to the query of collections_in_root.
EnterLeaf ==
    /\ mode = "resource" /\ pc = "leaf"
    /\ \E set \in { vault_setter(resc[leaf[1]].vault_path) } :
           IF set = NoneOpt
           THEN /\ Aborted("vault")
                /\ UNCHANGED << vault, hiera, collQ, audited >>
           ELSE /\ vault' = set[1]
                /\ hiera' = Join(leaf[2], << ";" >>)
                /\ audited' = Append(audited, leaf[1])
                /\ collQ' = collections_in_root
                /\ Running("colls")
    /\ UNCHANGED << world, translation, mode, resource_name, root, leaf, to_visit,
                    cur_coll, objQ, heads, out, src, probes, visits, yielded,
                    bottomUpVars >>

\* check_collections, line 329: the expected directory of a collection
CollPath(coll_name) ==
    Replace(coll_name, << "/" >> \o resc[root].zone_name, vault)

\* A check_collections without the `continue` of lines 337-338: the data
\* objects of a collection would be probed whatever its directory's status.
SkipsNothing(status_on_disk) == FALSE

\* check_collections, lines 337-338: the data objects of a collection are
\* skipped when its directory is not OK on disk.
SkipsObjects(status_on_disk) == status_on_disk # "OK"

\* check_collections, lines 326-349: one iteration of the loop over the
\* collections, up to the query of its data objects.
CheckCollection ==
    /\ mode = "resource" /\ pc = "colls" /\ collQ # << >>
    /\ \E c \in { Head(collQ) } :
       \E coll_path \in { CollPath(c.name) } :
       \E status_on_disk \in { on_disk(coll_path) } :
           IF status_on_disk.raised # ""
           THEN /\ Aborted(status_on_disk.raised)
                /\ NoEmit
                /\ UNCHANGED << collQ, cur_coll, objQ >>
           ELSE /\ Emit(Result("COLLECTION", c.name, coll_path,
                               status_on_disk.value, EmptyDict), c.id)
                /\ collQ' = Tail(collQ)
                /\ cur_coll' = c
                /\ objQ' = IF SkipsObjects(status_on_disk.value) THEN << >>
                           ELSE data_objects_in_collection(c.id)
                /\ Running(IF SkipsObjects(status_on_disk.value)
                           THEN "colls" ELSE "objs")
    /\ UNCHANGED << world, translation, mode, resource_name, root, vault, hiera, leaf,
                    to_visit, heads, probes, visits, yielded, audited,
                    bottomUpVars >>

\* check_collections, line 326 with no collection left: check_collections
\* returns and the for loop of run asks find_leaves for the next leaf.
CollectionsDone ==
    /\ mode = "resource" /\ pc = "colls" /\ collQ = << >>
    /\ Running("leaves")
    /\ UNCHANGED << world, translation, mode, resource_name, root, vault, hiera, leaf,
                    to_visit, collQ, cur_coll, objQ, heads, out, src, probes,
                    visits, yielded, audited, bottomUpVars >>

\* check_collections, lines 349-366: one iteration of the loop over the
\* data objects of the current collection.
CheckObject ==
    /\ mode = "resource" /\ pc = "objs" /\ objQ # << >>
    /\ \E data_object \in { Head(objQ) } :
       \E probe \in { ProbeTopDown(data_object, data_object.path) } :
       LET obj_path == cur_coll.name \o << "/" >> \o data_object.name
           phy_path == data_object.path
       IN  IF probe.raised # ""
           THEN /\ Aborted(probe.raised)
                /\ NoEmit
                /\ Probe(data_object, phy_path, probe)
                /\ UNCHANGED objQ
           ELSE /\ Emit(Result("DATAOBJECT", obj_path, phy_path, probe.status,
                               probe.observed_values), data_object.id)
                /\ Probe(data_object, phy_path, probe)
                /\ objQ' = Tail(objQ)
                /\ Running("objs")
    /\ UNCHANGED << world, translation, mode, resource_name, root, vault, hiera, leaf,
                    to_visit, collQ, cur_coll, heads, visits, yielded, audited,
                    bottomUpVars >>

\* check_collections, line 349 with no data object left: on to the next
\* collection.
ObjectsDone ==
    /\ mode = "resource" /\ pc = "objs" /\ objQ = << >>
    /\ Running("colls")
    /\ UNCHANGED << world, translation, mode, resource_name, root, vault, hiera, leaf,
                    to_visit, collQ, cur_coll, objQ, heads, out, src, probes,
                    visits, yielded, audited, bottomUpVars >>

NextTD ==
    \/ TDStart
    \/ FindLeavesStep
    \/ FindLeavesEnd
    \/ EnterLeaf
    \/ CheckCollection
    \/ CollectionsDone
    \/ CheckObject
    \/ ObjectsDone

----------------------------------------------------------------------------
(* The bottom-up run, VaultCheck.run.                                      *)

topDownVars == << resource_name, to_visit, collQ, cur_coll, objQ, visits,
                  yielded, audited >>

\* The paths given to `-v`: the vault of q, a directory below it, the vault
\* of s, a path under no vault, a relative path and a path that starts
\* with two slashes.
VaultArgs ==
    { VaultPathOf("q"), DirA("q"), VaultPathOf("s"), << "/", "n", "/", "a" >>,
      << "n", "/", "a" >>, << "/", "/", "n" >> }

\* command.run and VaultCheck.run, lines 376-382: the second invocation,
\* over the catalog and filesystem of the first, up to the first lookup of
\* the owning resource.  The sink is a new one.
VaultStart ==
    /\ mode = "resource" /\ pc \in { "done", "aborted" }
    /\ \E arg \in VaultArgs :
         /\ vault_path' = arg
         /\ path' = arg
         /\ storage_resource' = get_resource_from_phy_path(arg)
    /\ mode' = "vault"
    /\ tdOut' = out /\ tdSrc' = src /\ tdEnd' = pc
    /\ out' = << >> /\ src' = << >> /\ heads' = << >> /\ probes' = << >>
    /\ root' = None /\ vault' = << >> /\ hiera' = << >> /\ leaf' = << >>
    /\ pc' = "resolve" /\ abort' = ""
    /\ UNCHANGED << world, translation, topDownVars, walkQ, dirname, subdirQ, fileQ >>

\* Lines 383-388: one iteration of the loop that strips the last segment
\* until a resource has the path as its vault path.
ResolveStep ==
    /\ mode = "vault" /\ pc = "resolve" /\ storage_resource = None
    /\ path' = Dirname(path)
    /\ IF path' = RootDir
       THEN /\ Aborted("no resource")
            /\ UNCHANGED storage_resource
       ELSE /\ storage_resource' = get_resource_from_phy_path(path')
            /\ Running("resolve")
    /\ UNCHANGED << world, translation, mode, vault_path, root, vault, hiera, leaf, walkQ,
                    dirname, subdirQ, fileQ, heads, out, src, probes,
                    topDownVars, tdOut, tdSrc, tdEnd >>

\* Line 400: the directory to walk when a root collection is given.
PathToWalk ==
    IF root_collection = NoneOpt THEN vault_path
    ELSE ReplaceCount(root_collection[1],
                      << "/" >> \o resc[find_root(storage_resource)[1]].zone_name,
                      vault_path, 1)

\* Lines 390-402: the owning resource is found; its vault, root and
\* hierarchy, and the start of os.walk.
VaultSetup ==
    /\ mode = "vault" /\ pc = "resolve" /\ storage_resource # None
    /\ \E set \in { vault_setter(resc[storage_resource].vault_path) } :
       \E fr \in { find_root(storage_resource) } :
           IF set = NoneOpt
           THEN /\ Aborted("vault")
                /\ UNCHANGED << vault, root, hiera, leaf, walkQ >>
           ELSE /\ vault' = set[1]
                /\ root' = fr[1]
                /\ hiera' = Join(Append(fr[2], resc[storage_resource].name), << ";" >>)
                /\ leaf' = << storage_resource,
                              Append(fr[2], resc[storage_resource].name) >>
                /\ walkQ' = << PathToWalk >>
                /\ Running("walk")
    /\ UNCHANGED << world, translation, mode, vault_path, storage_resource, path, dirname,
                    subdirQ, fileQ, heads, out, src, probes, topDownVars,
                    tdOut, tdSrc, tdEnd >>

\* The paths of the filesystem in the order directories list them.
FsList ==
    LET Of(n) == << VaultPathOf(n), DirA(n), FileIn(DirA(n), "f") >>
    IN  Of("p") \o Of("q") \o Of("s") \o Of("t") \o Of("u")
        \o << FileIn(DirA("q"), "g"), DirB("q"), FileIn(DirB("q"), "h") >>

\* os.walk: whether listing the directory top succeeds.
Listable(top) ==
    /\ top \in DOMAIN fs
    /\ fs[top].errno = "ok"
    /\ fs[top].kind = "dir"
    /\ fs[top].r

\* os.walk: whether an entry is put among the subdirectories.  Python 2
\* asks os.path.isdir, which stats the entry; Python 3 asks the directory
\* entry itself.
IsDirEntry(p) == fs[p].kind = "dir" /\ (PY2 => fs[p].errno = "ok")

\* os.walk: the names of the entries of top, in listing order.
Entries(top, dirs) ==
    LET In(p) == /\ Dirname(p) = top
                 /\ fs[p].present
                 /\ IsDirEntry(p) = dirs
        hits == SelectSeq(FsList, In)
    IN  [ i \in 1..Len(hits) |-> Basename(hits[i]) ]

\* os.walk, one step of the generator with a directory pending: it is
\* listed and yielded with its subdirs and filenames, or skipped when it
\* cannot be listed (os.walk ignores the error).
WalkNext ==
    /\ mode = "vault" /\ pc = "walk" /\ walkQ # << >>
    /\ LET top == Head(walkQ)
       IN  IF Listable(top)
           THEN \E dirs \in { Entries(top, TRUE) } :
                    /\ dirname' = top
                    /\ subdirQ' = dirs
                    /\ fileQ' = Entries(top, FALSE)
                    /\ walkQ' = [ i \in 1..Len(dirs) |-> PathJoin(top, dirs[i]) ]
                                \o Tail(walkQ)
                    /\ pc' = "entries"
           ELSE /\ walkQ' = Tail(walkQ)
                /\ pc' = "walk"
                /\ UNCHANGED << dirname, subdirQ, fileQ >>
    /\ UNCHANGED << world, translation, mode, vault_path, storage_resource, path, abort,
                    root, vault, hiera, leaf, heads, out, src, probes,
                    topDownVars, tdOut, tdSrc, tdEnd >>

\* os.walk with no directory pending: the for loop of line 402 ends and
\* run returns.
WalkEnd ==
    /\ mode = "vault" /\ pc = "walk" /\ walkQ = << >>
    /\ Running("done")
    /\ UNCHANGED << world, translation, mode, vault_path, storage_resource, path, root,
                    vault, hiera, leaf, walkQ, dirname, subdirQ, fileQ, heads,
                    out, src, probes, topDownVars, tdOut, tdSrc, tdEnd >>

\* get_collection, lines 446-450: the logical path expected for a
\* directory.
CollName(phy_path) ==
    Replace(phy_path, resc[storage_resource].vault_path,
            << "/" >> \o resc[root].zone_name)

\* VaultCheck.get_collection: the collection registered for a directory,
\* None when there is none.
get_collection(phy_path) ==
    LET Match(c) == c.name = CollName(phy_path)
                    /\ resc[storage_resource].id \in c.rescs
        hits == SelectSeq(coll, Match)
    IN  IF hits = << >> THEN [ collection |-> None, name |-> << "UNKNOWN" >>,
                               status |-> "NOT_REGISTERED" ]
        ELSE [ collection |-> hits[1].id, name |-> hits[1].name, status |-> "OK" ]

\* VaultCheck.get_data_object: the first data object registered at the
\* path on the active hierarchy, no row when there is none.
get_data_object(phy_path) ==
    LET Match(d) == d.path = phy_path /\ d.resc_hier = hiera
    IN  SelectSeq(dobj, Match)

\* The Collection.name joined to a data object row.
CollNameOf(data_object) ==
    LET Is(c) == c.id = data_object.coll_id IN SelectSeq(coll, Is)[1].name

\* Lines 404-414: one iteration of the loop over the subdirs.
CheckSubdir ==
    /\ mode = "vault" /\ pc = "entries" /\ subdirQ # << >>
    /\ \E phy_path \in { PathJoin(dirname, Head(subdirQ)) } :
       \E got \in { get_collection(phy_path) } :
           Emit(Result("DIRECTORY", got.name, phy_path, got.status, EmptyDict),
                got.collection)
    /\ subdirQ' = Tail(subdirQ)
    /\ UNCHANGED << world, translation, mode, vault_path, storage_resource, path, pc, abort,
                    root, vault, hiera, leaf, walkQ, dirname, fileQ, heads,
                    probes, topDownVars, tdOut, tdSrc, tdEnd >>

\* Lines 416-443: one iteration of the loop over the filenames.
CheckFile ==
    /\ mode = "vault" /\ pc = "entries" /\ subdirQ = << >> /\ fileQ # << >>
    /\ \E phy_path \in { PathJoin(dirname, Head(fileQ)) } :
       \E rows \in { get_data_object(phy_path) } :
           IF rows = << >>
           THEN /\ Emit(Result("FILE", << "UNKNOWN" >>, phy_path,
                               "NOT_REGISTERED", EmptyDict), None)
                /\ fileQ' = Tail(fileQ)
                /\ Running("entries")
                /\ UNCHANGED probes
           ELSE \E probe \in { ProbeBottomUp(rows[1], phy_path) } :
                LET data_object == rows[1]
                    obj_path == CollNameOf(data_object) \o << "/" >>
                                \o data_object.name
                IN  IF probe.raised # ""
                    THEN /\ Aborted(probe.raised)
                         /\ NoEmit
                         /\ Probe(data_object, phy_path, probe)
                         /\ UNCHANGED fileQ
                    ELSE /\ Emit(Result("FILE", obj_path, phy_path, probe.status,
                                        probe.observed_values), data_object.id)
                         /\ Probe(data_object, phy_path, probe)
                         /\ fileQ' = Tail(fileQ)
                         /\ Running("entries")
    /\ UNCHANGED << world, translation, mode, vault_path, storage_resource, path, root,
                    vault, hiera, leaf, walkQ, dirname, subdirQ, heads,
                    topDownVars, tdOut, tdSrc, tdEnd >>

\* Lines 404 and 416 with no entry left: the body of the for loop of line
\* 402 ends and os.walk is asked for the next directory.
EntriesDone ==
    /\ mode = "vault" /\ pc = "entries" /\ subdirQ = << >> /\ fileQ = << >>
    /\ Running("walk")
    /\ UNCHANGED << world, translation, mode, vault_path, storage_resource, path, root,
                    vault, hiera, leaf, walkQ, dirname, subdirQ, fileQ, heads,
                    out, src, probes, topDownVars, tdOut, tdSrc, tdEnd >>

NextBU ==
    \/ VaultStart
    \/ ResolveStep
    \/ VaultSetup
    \/ WalkNext
    \/ WalkEnd
    \/ CheckSubdir
    \/ CheckFile
    \/ EntriesDone

----------------------------------------------------------------------------
(* Initial states and specifications.                                      *)

\* The state of a process that has been constructed and not yet run.
Fresh ==
    /\ mode = "resource" /\ pc = "start" /\ abort = ""
    /\ vault_path = << >> /\ storage_resource = None /\ path = << >>
    /\ root = None /\ vault = << >> /\ hiera = << >> /\ leaf = << >>
    /\ to_visit = << >> /\ collQ = << >> /\ objQ = << >>
    /\ cur_coll = Collections[1]
    /\ walkQ = << >> /\ dirname = << >> /\ subdirQ = << >> /\ fileQ = << >>
    /\ heads = << >> /\ out = << >> /\ src = << >> /\ probes = << >>
    /\ visits = [ n \in DOMAIN resc |-> 0 ]
    /\ yielded = << >> /\ audited = << >>
    /\ tdOut = << >> /\ tdSrc = << >> /\ tdEnd = ""
    /\ logical_path = << >> /\ phy_dir = << >> /\ back_path = << >>

\* The resource names given to `-r`: the resources of the catalog, and a
\* name the catalog does not have.
StartNames(names) == { << n >> : n \in names } \cup { << "x" >> }

\* The hierarchy p -> { q, s } with both leaves on the audit host.
MainPar == [ n \in { "p", "q", "s" } |-> IF n = "p" THEN None ELSE "p" ]

\* The object-centred worlds: one hierarchy, every state of the directory
\* /vq/a and of the file /vq/a/f, every stored checksum of f.
Init ==
    /\ PY2 \in BOOLEAN
    /\ resc = MkResc(MainPar, [ n \in DOMAIN MainPar |-> Fqdn ])
    /\ coll = Collections
    /\ \E ck \in Checksums : dobj = DataObjects(ck)
    /\ \E missing \in SUBSET { "q", "s" }, da \in DirStates, f \in FileStates :
         /\ (da.present /\ da.x /\ ~da.eio) \/ f = GoodFile
         /\ fs = MkFs(missing, da, f)
    /\ root_collection = NoneOpt
    /\ resource_name \in StartNames({ "p", "q" })
    /\ Fresh

Next == NextTD \/ NextBU

Spec == Init /\ [][Next]_vars

\* The hierarchy-centred worlds: every tree over the first NumResc names,
\* every hosting of its leaves, at most one vault missing, a sound
\* filesystem otherwise.
HierNames == { RescNames[i] : i \in 1..NumResc }

InitHier ==
    /\ PY2 = FALSE
    /\ \E par \in [ HierNames -> HierNames \cup { None } ],
          loc \in [ HierNames -> { Fqdn, OtherHost } ] :
         /\ IsTree(par)
         /\ resc = MkResc(par, loc)
    /\ coll = Collections
    /\ dobj = DataObjects(Checksum("sha2", 1))
    /\ \E missing \in { {} } \cup { { n } : n \in HierNames } :
         fs = MkFs(missing, GoodDir, GoodFile)
    /\ root_collection \in { NoneOpt, Some(CollA) }
    /\ resource_name \in StartNames(HierNames)
    /\ Fresh

SpecHier == InitHier /\ [][NextTD]_vars

----------------------------------------------------------------------------
(* Properties.                                                             *)

\* The catalog row of a data object id.
Row(id) == LET Is(d) == d.id = id IN SelectSeq(dobj, Is)[1]

\* The Results of the running process that are about a data object.
ObjectResults ==
    { i \in DOMAIN out : out[i].obj_type \in { "DATAOBJECT", "FILE" }
                         /\ src[i].row # None }

\* The facts about a probed file: it exists, it has the catalog's size, the
\* catalog stores a digest and the file's digest under that algorithm is the
\* stored one, it can be read.
FileExists(k) == Stat(k.path) = "ok"

SizeMatches(k) == FileExists(k) /\ fs[k.path].size = Row(k.row).size

DigestMatches(k) ==
    /\ FileExists(k)
    /\ Row(k.row).checksum # NoChecksum
    /\ fs[k.path].c = Row(k.row).checksum.c

Readable(k) == FileExists(k) /\ fs[k.path].r

\* C1: in both reconcilers a data object whose file exists (and can be
\* read), has the catalog size and the catalog digest gets the status OK,
\* and OK is given only when existence, size and checksum all pass.
C1_OkIffAllPass ==
    \A i \in DOMAIN probes :
        LET k == probes[i]
        IN  /\ (SizeMatches(k) /\ DigestMatches(k) /\ Readable(k)) => k.status = "OK"
            /\ k.status = "OK" => (SizeMatches(k) /\ DigestMatches(k))

\* C2: the digest is computed only after existence and size passed; an
\* absent file gets NotExisting and a file of another size gets
\* FileSizeMismatch, both without a digest computation.
C2_ShortCircuit ==
    \A i \in DOMAIN probes :
        LET k == probes[i]
        IN  /\ k.digested => SizeMatches(k)
            /\ Stat(k.path) = "ENOENT" => (k.status = "NOT_EXISTING" /\ ~k.digested)
            /\ (FileExists(k) /\ ~SizeMatches(k))
                 => (k.status = "FILE_SIZE_MISMATCH" /\ ~k.digested)

SizeKeys == { "expected_filesize", "observed_filesize" }

ChecksumKeys == { "expected_checksum", "observed_checksum" }

\* C3 as stated: the observed map of a data-object Result is empty for OK,
\* NotExisting, AccessDenied and NoChecksum, holds exactly the two sizes for
\* FileSizeMismatch and exactly the two checksums for ChecksumMismatch.
C3_ObservedOnlyForMismatch ==
    \A i \in ObjectResults :
        LET r == out[i]
            keys == DOMAIN r.observed_values
        IN  /\ r.status \in { "OK", "NOT_EXISTING", "ACCESS_DENIED", "NO_CHECKSUM" }
                 => keys = {}
            /\ r.status = "FILE_SIZE_MISMATCH" => keys = SizeKeys
            /\ r.status = "CHECKSUM_MISMATCH" => keys = ChecksumKeys

\* C3 as amended: the observed map holds the values of the steps that ran.
\* It is empty when stat failed (NotExisting, AccessDenied on stat); it holds
\* exactly the expected and observed size for FileSizeMismatch; it holds the
\* two sizes and the two checksums when the checksum step ran (OK,
\* ChecksumMismatch, and with both checksums None for NoChecksum and for
\* AccessDenied on open).
C3_ObservedOfStepsRun ==
    \A i \in ObjectResults :
        LET r == out[i]
            d == Row(src[i].row)
            v == r.observed_values
            keys == DOMAIN v
            sizes == /\ v["expected_filesize"] = PyStrOfInt(d.size)
                     /\ v["observed_filesize"] = PyStrOfInt(fs[r.phy_path].size)
        IN  /\ r.status = "NOT_EXISTING" => keys = {}
            /\ (r.status = "ACCESS_DENIED" /\ Stat(r.phy_path) # "ok") => keys = {}
            /\ r.status = "FILE_SIZE_MISMATCH" => (keys = SizeKeys /\ sizes)
            /\ (r.status \in { "NO_CHECKSUM", "ACCESS_DENIED" } /\ Stat(r.phy_path) = "ok")
                 => /\ keys = SizeKeys \cup ChecksumKeys
                    /\ sizes
                    /\ v["expected_checksum"] = PyNone
                    /\ v["observed_checksum"] = PyNone
            /\ r.status \in { "OK", "CHECKSUM_MISMATCH" }
                 => /\ keys = SizeKeys \cup ChecksumKeys
                    /\ sizes
                    /\ v["expected_checksum"].ty = "str"
                    /\ v["expected_checksum"].c = d.checksum.c
                    /\ v["observed_checksum"].c = fs[r.phy_path].c
                    /\ (r.status = "OK") = (v["observed_checksum"] = v["expected_checksum"])

\* C3, witness: a data object reported OK with the four observed values,
\* and one reported FileSizeMismatch, in the same run.
C3_Witness ==
    /\ \E i \in ObjectResults : out[i].status = "OK"
    /\ \E i \in ObjectResults : out[i].status = "FILE_SIZE_MISMATCH"

\* C4: in a top-down and in a bottom-up run the sink gets exactly one
\* head() call, before the first Result.
C4_HeadOnceBeforeFirstResult ==
    (out # << >> \/ pc = "done") => (Len(heads) = 1 /\ heads[1] = 0)

\* C5: in a bottom-up run every probe of a file with a matching data object
\* leads to one Result, whatever stat gave: NotExisting or AccessDenied when
\* stat failed with ENOENT or EACCES (an unreadable file aside), and the run
\* is not ended by it.
C5_StatFailureIsAResult ==
    mode = "vault" =>
        \A i \in DOMAIN probes :
            LET k == probes[i]
            IN  /\ Stat(k.path) = "ENOENT" => k.status = "NOT_EXISTING"
                /\ Stat(k.path) = "EACCES" => k.status = "ACCESS_DENIED"
                /\ Readable(k) => k.status # ""
                /\ Stat(k.path) \in { "ENOENT", "EACCES" } => abort = ""

\* The Results, their subjects and the end of the top-down run, also when
\* the bottom-up run has taken over.
TDOut == IF mode = "resource" THEN out ELSE tdOut

TDSrc == IF mode = "resource" THEN src ELSE tdSrc

TDDone == IF mode = "resource" THEN pc = "done" ELSE tdEnd = "done"

\* The Results of the top-down run for collection id c under leaf l, and
\* those for the data objects of c under l.
CollResults(l, c) ==
    { i \in DOMAIN TDOut : /\ TDOut[i].obj_type = "COLLECTION"
                           /\ TDSrc[i] = [ leaf |-> l, row |-> c ] }

ObjResultsIn(l, c) ==
    { i \in DOMAIN TDOut : /\ TDOut[i].obj_type = "DATAOBJECT"
                           /\ TDSrc[i].leaf = l
                           /\ Row(TDSrc[i].row).coll_id = c }

\* C6: in a top-down run a collection whose directory is not OK on disk
\* gets exactly one Result (per audited leaf), its data objects get none and
\* are not probed, and the walk goes on: the next Result, if any, is that
\* of a collection, and a run that ends has reported every collection.
C6_MissingCollectionSkipsObjects ==
    /\ \A i \in DOMAIN TDOut :
         (TDOut[i].obj_type = "COLLECTION" /\ TDOut[i].status # "OK") =>
             /\ on_disk(TDOut[i].phy_path).value = TDOut[i].status
             /\ CollResults(TDSrc[i].leaf, TDSrc[i].row) = { i }
             /\ ObjResultsIn(TDSrc[i].leaf, TDSrc[i].row) = {}
             /\ mode = "resource" =>
                  \A j \in DOMAIN probes :
                      ~ ( /\ probes[j].leaf = TDSrc[i].leaf
                          /\ Row(probes[j].row).coll_id = TDSrc[i].row )
             /\ i < Len(TDOut) => TDOut[i + 1].obj_type = "COLLECTION"
    /\ (mode = "resource" /\ pc = "done") =>
         \A k \in DOMAIN audited : \A n \in DOMAIN collections_in_root :
             Cardinality(CollResults(audited[k], collections_in_root[n].id)) = 1

\* C6, witness: a finished top-down run in which a collection that has data
\* objects on the audited leaf was reported NotExisting and a later
\* collection was reported after it.
C6_Witness ==
    /\ mode = "resource" /\ pc = "done"
    /\ \E i \in DOMAIN out :
         /\ out[i].obj_type = "COLLECTION" /\ out[i].status = "NOT_EXISTING"
         /\ i < Len(out)
         /\ \E n \in DOMAIN dobj :
              /\ dobj[n].coll_id = src[i].row
              /\ dobj[n].resc_hier = Join(<< << "p" >>, << src[i].leaf >> >>, << ";" >>)

\* The hierarchy as the parent pointers give it.
ParentOf(n) == CHOOSE m \in DOMAIN resc : resc[m].id = resc[n].parent

\* The names from the root down to n.
RECURSIVE UpChain(_)
UpChain(n) ==
    IF resc[n].parent = None THEN << resc[n].name >>
    ELSE Append(UpChain(ParentOf(n)), resc[n].name)

\* The resources of the subtree of a.
Sub(a) ==
    { n \in DOMAIN resc : \E i \in 1..Len(UpChain(n)) : UpChain(n)[i] = resc[a].name }

Childless(n) == ~ \E m \in DOMAIN resc : resc[m].parent = resc[n].id

\* The childless resources among S that are hosted on the audit host.
LocalLeaves(S) == { n \in S : Childless(n) /\ resc[n].location = Fqdn }

StartNode == get_resource(resource_name)

SeqRange(q) == { q[i] : i \in DOMAIN q }

\* C7: find_leaves, started at a node of a tree with a chain of ancestors,
\* dequeues no node twice (so it ends after at most as many iterations as
\* there are nodes) and, when it is exhausted, has dequeued every node of
\* the subtree once and no other node, and has yielded exactly the
\* childless nodes of the subtree hosted on the audit host, each once, each
\* with the supplied chain followed by the names from the start node down
\* to the leaf.
C7_FindLeavesYieldsLocalLeaves ==
    /\ \A n \in DOMAIN resc : visits[n] <= 1
    /\ (mode = "resource" /\ pc = "done") =>
         /\ \A n \in DOMAIN resc :
              visits[n] = IF n \in Sub(StartNode) THEN 1 ELSE 0
         /\ { yielded[i][1] : i \in DOMAIN yielded } = LocalLeaves(Sub(StartNode))
         /\ Len(yielded) = Cardinality(LocalLeaves(Sub(StartNode)))
         /\ \A i \in DOMAIN yielded :
              yielded[i][2] =
                  find_root(StartNode)[2]
                  \o SubSeq(UpChain(yielded[i][1]), Len(UpChain(StartNode)),
                            Len(UpChain(yielded[i][1])))

\* C7, witness: find_leaves is exhausted after it yielded one leaf and
\* skipped another, hosted elsewhere, below a start node that has a parent.
C7_Witness ==
    /\ mode = "resource" /\ pc = "done"
    /\ Len(yielded) >= 1
    /\ \E n \in Sub(StartNode) : Childless(n) /\ resc[n].location # Fqdn
    /\ \E i \in DOMAIN yielded : Len(yielded[i][2]) >= 2

\* C8 as stated: when the run is aborted because a leaf's physical root
\* does not exist, no Result has been emitted.
C8_NoResultBeforeVaultAbort ==
    (mode = "resource" /\ abort = "vault") => out = << >>

\* C8 as amended: a leaf whose physical root does not exist ends the run
\* when the traversal yields it, before any Result under that leaf: no
\* Result is ever emitted under a leaf whose physical root does not exist,
\* such a leaf is the last one yielded and check_collections is not started
\* for it, and the Results emitted before the abort are those of the leaves
\* yielded earlier (none when the leaf is the first).
C8_VaultAbortBeforeLeafResults ==
    mode = "resource" =>
        /\ \A i \in DOMAIN out : PathExists(resc[src[i].leaf].vault_path)
        /\ \A i \in DOMAIN yielded :
             ~PathExists(resc[yielded[i][1]].vault_path) =>
                 /\ i = Len(yielded)
                 /\ pc \in { "leaf", "aborted" }
                 /\ yielded[i][1] \notin SeqRange(audited)
        /\ abort = "vault" =>
             /\ pc = "aborted"
             /\ ~PathExists(resc[leaf[1]].vault_path)
             /\ \A i \in DOMAIN out :
                  \E j \in 1..(Len(yielded) - 1) : src[i].leaf = yielded[j][1]
             /\ Len(yielded) = 1 => out = << >>

\* C8, witness: the run is aborted at the second leaf, after the Results of
\* the first.
C8_Witness ==
    /\ mode = "resource" /\ abort = "vault"
    /\ Len(yielded) = 2
    /\ out # << >>

\* C10 as stated: a finished top-down run has run check_collections once
\* for every locally hosted leaf under the root of the starting location.
C10_AuditsLeavesUnderRoot ==
    (mode = "resource" /\ pc = "done") =>
        /\ SeqRange(audited) = LocalLeaves(Sub(find_root(StartNode)[1]))
        /\ Len(audited) = Cardinality(SeqRange(audited))

\* C10 as amended: a top-down run audits the locally hosted leaves of the
\* subtree of the starting location (the starting location itself when it
\* is a leaf): check_collections is never run for another resource, never
\* twice for one, and a finished run has run it for each of them.
C10_AuditsLeavesUnderStart ==
    mode = "resource" =>
        /\ StartNode # None => SeqRange(audited) \subseteq LocalLeaves(Sub(StartNode))
        /\ Len(audited) = Cardinality(SeqRange(audited))
        /\ pc = "done" => SeqRange(audited) = LocalLeaves(Sub(StartNode))

\* C10, witness: a finished run from a location that is not the root, with
\* a leaf audited and a locally hosted leaf outside its subtree.
C10_Witness ==
    /\ mode = "resource" /\ pc = "done"
    /\ audited # << >>
    /\ resc[StartNode].parent # None
    /\ LocalLeaves(Sub(find_root(StartNode)[1])) # LocalLeaves(Sub(StartNode))

\* C9: when a bottom-up run over the physical root of a leaf has ended after
\* a finished top-down run on the same catalog and filesystem, every data
\* object that the top-down run reported OK under that leaf, registered at
\* a path under the physical root, has an OK Result of the bottom-up run
\* for its file, and no NotRegistered one.
C9_TopDownOkIsBottomUpOk ==
    (mode = "vault" /\ pc \in { "done", "aborted" } /\ tdEnd = "done") =>
        \A i \in DOMAIN tdOut :
            ( /\ tdOut[i].obj_type = "DATAOBJECT"
              /\ tdOut[i].status = "OK"
              /\ vault_path = resc[tdSrc[i].leaf].vault_path
              /\ StartsWith(tdOut[i].phy_path, vault_path \o << "/" >>) ) =>
                /\ \E j \in DOMAIN out :
                     /\ out[j].obj_type = "FILE"
                     /\ out[j].phy_path = tdOut[i].phy_path
                     /\ out[j].status = "OK"
                /\ \A j \in DOMAIN out :
                     out[j].phy_path = tdOut[i].phy_path =>
                         out[j].status # "NOT_REGISTERED"

\* The hierarchy-centred worlds with both reconcilers: a top-down run, then
\* a bottom-up run over the same catalog and filesystem.
SpecHierBoth == InitHier /\ [][Next]_vars

\* The leaf whose data objects the running reconciler is matching by
\* placement path: the leaf check_collections is running for, or the
\* owning resource of a bottom-up run that has set itself up.
KeyInUse ==
    \/ mode = "resource" /\ pc \in { "colls", "objs" }
    \/ mode = "vault" /\ vault # << >>

\* C11: in both reconcilers, wherever the run starts in the hierarchy, the
\* placement path used to match data objects is the names on the chain from
\* the root of the hierarchy down to the audited leaf, root first, each
\* name once, joined by ";".
C11_PlacementPathIsRootToLeaf ==
    KeyInUse =>
        /\ mode = "vault" => leaf[1] = storage_resource
        /\ hiera = Join(UpChain(leaf[1]), << ";" >>)
        /\ Split(hiera, ";") = UpChain(leaf[1])
        /\ Cardinality(SeqRange(Split(hiera, ";"))) = Len(Split(hiera, ";"))
        /\ resc[get_resource(Split(hiera, ";")[1])].parent = None

\* C11, witness: a bottom-up run has set itself up for a leaf two levels
\* below the root, after a top-down run that started at that leaf and
\* audited it.
C11_Witness ==
    /\ mode = "vault" /\ vault # << >>
    /\ Len(UpChain(storage_resource)) = 3
    /\ audited = << storage_resource >>
    /\ StartNode = storage_resource

\* The object-centred worlds, with the scheduling of the resolve loop: the
\* process keeps running, so an iteration of the loop, or the setup that
\* follows it, is taken whenever it is due.
SpecLive == Init /\ [][Next]_vars /\ WF_vars(ResolveStep) /\ WF_vars(VaultSetup)

\* C12: the loop that resolves the owning resource of a bottom-up run ends
\* for every starting path: a run that is looking for the owning resource
\* eventually has found it or has ended with the fatal error.
C12_ResolveTerminates ==
    (mode = "vault" /\ pc = "resolve") ~> (mode = "vault" /\ pc # "resolve")

----------------------------------------------------------------------------
(* Path translation on its own.                                            *)

\* The names of the segments below the zone: a plain one, the name of the
\* zone, a name that starts like the zone, and the name of the vault
\* directory of q.
Segs == { << "a" >>, << ZoneName >>, << ZoneName, "a" >>, << "v", "q" >> }

\* The paths of at most k segments below base.
RECURSIVE PathsBelow(_, _)
PathsBelow(base, k) ==
    IF k = 0 THEN { base }
    ELSE { base }
         \cup UNION { PathsBelow(base \o << "/" >> \o sg, k - 1) : sg \in Segs }

\* The logical paths of the collections of the zone.
LogicalPaths == PathsBelow(<< "/", ZoneName >>, MaxSegs) \ { << "/", ZoneName >> }

\* A collection of the zone on a leaf of the hierarchy p -> { q, s }, with
\* the attributes of the reconcilers as they are while the leaf is audited:
\* the root, the vault of the leaf, the owning resource.
InitPaths ==
    /\ PY2 = FALSE
    /\ resc = MkResc(MainPar, [ n \in DOMAIN MainPar |-> Fqdn ])
    /\ coll = Collections
    /\ dobj = DataObjects(NoChecksum)
    /\ fs = MkFs({}, GoodDir, GoodFile)
    /\ root_collection = NoneOpt
    /\ resource_name = << "p" >>
    /\ mode = "translate" /\ pc = "start" /\ abort = ""
    /\ root = "p"
    /\ \E l \in { "q", "s" } :
         /\ storage_resource = l
         /\ vault = Realpath(resc[l].vault_path)
         /\ vault_path = resc[l].vault_path
         /\ leaf = << l, << << "p" >>, << l >> >> >>
         /\ hiera = Join(leaf[2], << ";" >>)
    /\ logical_path \in LogicalPaths
    /\ phy_dir = << >> /\ back_path = << >>
    /\ path = << >> /\ to_visit = << >> /\ collQ = << >> /\ objQ = << >>
    /\ cur_coll = Collections[1]
    /\ walkQ = << >> /\ dirname = << >> /\ subdirQ = << >> /\ fileQ = << >>
    /\ heads = << >> /\ out = << >> /\ src = << >> /\ probes = << >>
    /\ visits = [ n \in DOMAIN resc |-> 0 ]
    /\ yielded = << >> /\ audited = << >>
    /\ tdOut = << >> /\ tdSrc = << >> /\ tdEnd = ""

\* check_collections, lines 323-329, for the collection.
ToPhysical ==
    /\ mode = "translate" /\ pc = "start"
    /\ phy_dir' = CollPath(logical_path)
    /\ pc' = "physical"
    /\ UNCHANGED << world, mode, abort, root, vault, hiera, leaf, heads, out,
                    src, probes, topDownVars, bottomUpVars, logical_path,
                    back_path >>

\* get_collection, lines 446-450, for the directory of the collection.
ToLogical ==
    /\ mode = "translate" /\ pc = "physical"
    /\ back_path' = CollName(phy_dir)
    /\ pc' = "logical"
    /\ UNCHANGED << world, mode, abort, root, vault, hiera, leaf, heads, out,
                    src, probes, topDownVars, bottomUpVars, logical_path,
                    phy_dir >>

NextPaths == ToPhysical \/ ToLogical

SpecPaths == InitPaths /\ [][NextPaths]_vars

\* What is left of s after its first n elements.
Drop(s, n) == SubSeq(s, n + 1, Len(s))

\* C13: path translation substitutes the leading prefix only: the physical
\* path of a collection is the physical root followed by the logical path
\* without its leading "/<zone>", the logical path of a directory is
\* "/<zone>" followed by the physical path without its leading physical
\* root, and translating a collection path to physical and back gives the
\* collection path.
C13_LeadingPrefixOnly ==
    LET prefix == << "/" >> \o resc[root].zone_name
    IN  mode = "translate" =>
          /\ pc \in { "physical", "logical" } =>
                 phy_dir = vault \o Drop(logical_path, Len(prefix))
          /\ pc = "logical" =>
                 /\ back_path = prefix \o Drop(phy_dir, Len(resc[storage_resource].vault_path))
                 /\ back_path = logical_path

----------------------------------------------------------------------------
(* One Result per audited entity.                                          *)

\* C14 as stated: over a whole top-down run no catalog collection and no
\* catalog data object is the subject of more than one Result.
C14_OneResultPerEntity ==
    \A i, j \in DOMAIN TDOut :
        ( /\ TDOut[i].obj_type = TDOut[j].obj_type
          /\ TDSrc[i].row = TDSrc[j].row ) => i = j

\* The sink receives the Results of a top-down run in the order they are
\* produced: a step of the run leaves the stream as it is or appends to it.
SinkInOrder ==
    (mode = "resource" /\ mode' = "resource") =>
        \/ out' = out
        \/ /\ Len(out') = Len(out) + 1
           /\ SubSeq(out', 1, Len(out)) = out

\* C14 as amended: in a top-down run a Result is produced once per audited
\* entity and leaf: no catalog data object is the subject of more than one
\* Result, no catalog collection is the subject of more than one Result
\* under the same leaf (it is the subject of one Result under every leaf
\* audited, each with the physical path under that leaf's physical root),
\* and the Results reach the sink in the order they are produced.
C14_OneResultPerLeafAndEntity ==
    /\ [] ( /\ \A i, j \in DOMAIN TDOut :
                 ( /\ TDOut[i].obj_type = TDOut[j].obj_type
                   /\ TDSrc[i].row = TDSrc[j].row
                   /\ TDOut[i].obj_type = "COLLECTION" => TDSrc[i].leaf = TDSrc[j].leaf )
                 => i = j
            /\ \A i \in DOMAIN TDOut :
                 TDOut[i].obj_type = "COLLECTION" =>
                     StartsWith(TDOut[i].phy_path, resc[TDSrc[i].leaf].vault_path)
            /\ TDDone =>
                 \A k \in DOMAIN audited : \A n \in DOMAIN coll :
                     Cardinality(CollResults(audited[k], coll[n].id)) = 1 )
    /\ [][SinkInOrder]_vars

\* C14, witness: a finished top-down run that audited two leaves and
\* reported a collection under each of them, and a data object under each.
C14_Witness ==
    /\ mode = "resource" /\ pc = "done"
    /\ Len(audited) = 2
    /\ \E i, j \in DOMAIN out :
         /\ i # j
         /\ out[i].obj_type = "COLLECTION" /\ out[j].obj_type = "COLLECTION"
         /\ src[i].row = src[j].row
         /\ src[i].leaf # src[j].leaf
    /\ \E i, j \in DOMAIN out :
         /\ out[i].obj_type = "DATAOBJECT" /\ out[j].obj_type = "DATAOBJECT"
         /\ src[i].leaf # src[j].leaf

====
